---- MODULE Spec2Model ----
(***************************************************************************)
(* Model of the text-to-SQL pipeline of the bot: the handler               *)
(* handle_text_message (src/bot/handlers.py), LLMService.generate_sql with *)
(* _extract_sql and _validate_sql (src/bot/llm_service.py),                *)
(* QueryBuilder.execute (src/bot/query_builder.py) and                     *)
(* Database.execute_query over the asyncpg pool (src/bot/database.py).     *)
(*                                                                         *)
(* A Python str is a sequence of one-character strings.  The Russian       *)
(* message literals of the source are not ASCII; each is written as ONE    *)
(* symbol of the sequence (a transliterated tag), so that concatenation    *)
(* with str(e) and "contains" work on them as on any other text.           *)
(***************************************************************************)
EXTENDS Integers, Sequences, FiniteSets, TLC

(***************************************************************************)
(* Bounds of the model.                                                    *)
(***************************************************************************)
\* number of handler invocations modelled individually
NumReqs == 2
\* longest translator response, in fragments, of the pure-function inputs
MaxFrags == 3

(***************************************************************************)
(* Python str operations used by the source.                               *)
(***************************************************************************)
\* the characters str.strip() removes (ASCII whitespace)
Whitespace == {" ", "\t", "\n", "\r"}

LowerLetters == <<"a", "b", "c", "d", "e", "f", "g", "h", "i", "j", "k", "l", "m", "n", "o", "p", "q", "r", "s", "t", "u", "v", "w", "x", "y", "z">>
UpperLetters == <<"A", "B", "C", "D", "E", "F", "G", "H", "I", "J", "K", "L", "M", "N", "O", "P", "Q", "R", "S", "T", "U", "V", "W", "X", "Y", "Z">>

\* str.upper() on one character
UpperChar(c) ==
    IF \E i \in 1..Len(LowerLetters) : LowerLetters[i] = c
    THEN UpperLetters[CHOOSE i \in 1..Len(LowerLetters) : LowerLetters[i] = c]
    ELSE c

\* str.upper()
Upper(s) == [i \in 1..Len(s) |-> UpperChar(s[i])]

SetMin(S) == CHOOSE x \in S : \A y \in S : x <= y
SetMax(S) == CHOOSE x \in S : \A y \in S : x >= y

\* str.strip()
Strip(s) ==
    LET keep == {i \in 1..Len(s) : s[i] \notin Whitespace}
    IN  IF keep = {} THEN <<>> ELSE SubSeq(s, SetMin(keep), SetMax(keep))

\* str.startswith(p)
StartsWith(s, p) == Len(s) >= Len(p) /\ SubSeq(s, 1, Len(p)) = p

\* str.endswith(p)
EndsWith(s, p) == Len(s) >= Len(p) /\ SubSeq(s, Len(s) - Len(p) + 1, Len(s)) = p

\* p in s
Contains(s, p) == \E i \in 1..(Len(s) - Len(p) + 1) : SubSeq(s, i, i + Len(p) - 1) = p

\* str.split('\n')
RECURSIVE SplitLines(_)
SplitLines(s) ==
    LET nl == {i \in 1..Len(s) : s[i] = "\n"}
    IN  IF nl = {} THEN <<s>>
        ELSE <<SubSeq(s, 1, SetMin(nl) - 1)>> \o SplitLines(SubSeq(s, SetMin(nl) + 1, Len(s)))

\* '\n'.join(lines)
RECURSIVE JoinLines(_)
JoinLines(lines) ==
    IF lines = <<>> THEN <<>>
    ELSE IF Len(lines) = 1 THEN lines[1]
    ELSE lines[1] \o <<"\n">> \o JoinLines(Tail(lines))

(***************************************************************************)
(* LLMService._validate_sql and LLMService._extract_sql.                   *)
(***************************************************************************)
\* the character U+0060 (a string of the module cannot hold it)
Backtick == "[backtick]"

SELECT == <<"S", "E", "L", "E", "C", "T">>
Fence == <<Backtick, Backtick, Backtick>>
Semicolon == <<";">>

dangerous_keywords ==
    << <<"D", "R", "O", "P">>,
       <<"D", "E", "L", "E", "T", "E">>,
       <<"U", "P", "D", "A", "T", "E">>,
       <<"I", "N", "S", "E", "R", "T">>,
       <<"A", "L", "T", "E", "R">>,
       <<"T", "R", "U", "N", "C", "A", "T", "E">>,
       <<"C", "R", "E", "A", "T", "E">>,
       <<"E", "X", "E", "C">> >>

\* _validate_sql with the two checks in the other order
ValidateOutcomeKeywordsFirst(sql) ==
    LET sql_upper == Upper(Strip(sql))
    IN  IF \E k \in 1..Len(dangerous_keywords) : Contains(sql_upper, dangerous_keywords[k])
        THEN "ForbiddenKeyword"
        ELSE IF ~StartsWith(sql_upper, SELECT) THEN "NotASelect"
        ELSE "Accepted"

\* the return statement _validate_sql leaves by: line 116 (not a SELECT),
\* line 122 (a dangerous keyword), line 124 (accepted)
ValidateOutcome(sql) ==
    LET sql_upper == Upper(Strip(sql))
    IN  IF ~StartsWith(sql_upper, SELECT) THEN "NotASelect"
        ELSE IF \E k \in 1..Len(dangerous_keywords) : Contains(sql_upper, dangerous_keywords[k])
             THEN "ForbiddenKeyword"
        ELSE "Accepted"

\* _validate_sql(sql) -> bool
_validate_sql(sql) == ValidateOutcome(sql) = "Accepted"

\* _extract_sql(response) -> str
_extract_sql(response) ==
    LET sql0 == Strip(response)
        unfenced ==
            IF StartsWith(sql0, Fence)
            THEN LET lines0 == SplitLines(sql0)
                     lines1 == IF StartsWith(Strip(lines0[1]), Fence) THEN Tail(lines0) ELSE lines0
                     lines2 == IF lines1 # <<>> /\ Strip(lines1[Len(lines1)]) = Fence
                               THEN SubSeq(lines1, 1, Len(lines1) - 1)
                               ELSE lines1
                 IN  JoinLines(lines2)
            ELSE sql0
        sql1 == Strip(unfenced)
    IN  IF EndsWith(sql1, Semicolon) THEN SubSeq(sql1, 1, Len(sql1) - 1) ELSE sql1

(***************************************************************************)
(* Numbers.  A Python number is a decimal m * 10^(-e), kept normalised (no *)
(* trailing zero in the fraction), or one of the two non-finite floats.    *)
(* The values of the model are far inside the range where a double holds   *)
(* a decimal of this size exactly as Python prints it.                     *)
(***************************************************************************)
RECURSIVE Num(_, _)
Num(m, e) ==
    IF e > 0 /\ m % 10 = 0 THEN Num(m \div 10, e - 1)
    ELSE [k |-> "num", m |-> m, e |-> e]

NaN == [k |-> "nan", m |-> 0, e |-> 0]
Inf == [k |-> "inf", m |-> 1, e |-> 0]
\* no number (a variable not yet assigned)
NoNumber == [k |-> "none", m |-> 0, e |-> 0]

Digits == <<"0", "1", "2", "3", "4", "5", "6", "7", "8", "9">>
IsDigit(c) == \E i \in 1..10 : Digits[i] = c
DigitVal(c) == (CHOOSE i \in 1..10 : Digits[i] = c) - 1

\* the value of a sequence of decimal digits
RECURSIVE DigitsVal(_)
DigitsVal(ds) ==
    IF ds = <<>> THEN 0
    ELSE 10 * DigitsVal(SubSeq(ds, 1, Len(ds) - 1)) + DigitVal(ds[Len(ds)])

\* str(n) of a natural number
RECURSIVE NatStr(_)
NatStr(n) ==
    IF n < 10 THEN <<Digits[n + 1]>>
    ELSE NatStr(n \div 10) \o <<Digits[(n % 10) + 1]>>

Abs(n) == IF n < 0 THEN -n ELSE n
RECURSIVE Pow10(_)
Pow10(e) == IF e = 0 THEN 1 ELSE 10 * Pow10(e - 1)

\* str(n) of an int
IntStr(n) == IF n < 0 THEN <<"-">> \o NatStr(-n) ELSE NatStr(n)

\* the fraction f of e digits, zero-padded on the left
RECURSIVE FracStr(_, _)
FracStr(f, e) ==
    IF e = 0 THEN <<>>
    ELSE FracStr(f \div 10, e - 1) \o <<Digits[(f % 10) + 1]>>

\* str(x) of a finite float x (positional notation)
FloatStr(x) ==
    LET a == Abs(x.m)
        p == Pow10(x.e)
    IN  (IF x.m < 0 THEN <<"-">> ELSE <<>>)
        \o NatStr(a \div p) \o <<".">>
        \o (IF x.e = 0 THEN <<"0">> ELSE FracStr(a % p, x.e))

\* int(x) of a finite float x: truncation toward zero
IntOf(x) ==
    LET p == Pow10(x.e)
    IN  IF x.m < 0 THEN -((-x.m) \div p) ELSE x.m \div p

\* float(s) of a str: [ok, val], ok = FALSE for ValueError.  Surrounding
\* whitespace, a sign, digits with at most one point, nan, inf, infinity.
\* (Exponents and digit-group underscores are not in the model's cells.)
ParseFloat(s) ==
    LET b == Strip(s)
        signed == b # <<>> /\ b[1] \in {"+", "-"}
        sign == IF signed /\ b[1] = "-" THEN -1 ELSE 1
        body == IF signed THEN Tail(b) ELSE b
        dots == {i \in 1..Len(body) : body[i] = "."}
        dot == IF dots = {} THEN Len(body) + 1 ELSE SetMin(dots)
        ip == SubSeq(body, 1, dot - 1)
        fp == SubSeq(body, dot + 1, Len(body))
        bad == [ok |-> FALSE, val |-> NoNumber]
    IN  IF Upper(body) = <<"N", "A", "N">> THEN [ok |-> TRUE, val |-> NaN]
        ELSE IF Upper(body) \in {<<"I", "N", "F">>, <<"I", "N", "F", "I", "N", "I", "T", "Y">>} THEN [ok |-> TRUE, val |-> Inf]
        ELSE IF /\ \A i \in 1..Len(ip) : IsDigit(ip[i])
                /\ \A i \in 1..Len(fp) : IsDigit(fp[i])
                /\ Len(ip) + Len(fp) >= 1
             THEN [ok |-> TRUE, val |-> Num(sign * DigitsVal(ip \o fp), Len(fp))]
        ELSE bad

(***************************************************************************)
(* The cell asyncpg returns for a column: its Python type with its value.  *)
(* int for the integer types, float for float4/float8, Decimal for         *)
(* NUMERIC (SUM over a BIGINT column), str for text, None for NULL,        *)
(* datetime for a timestamp.                                               *)
(***************************************************************************)
NoText == <<>>
IntCell(n) == [type |-> "int", num |-> Num(n, 0), text |-> NoText]
FloatCell(x) == [type |-> "float", num |-> x, text |-> NoText]
DecimalCell(x) == [type |-> "Decimal", num |-> x, text |-> NoText]
StrCell(s) == [type |-> "str", num |-> NoNumber, text |-> s]
NoneCell == [type |-> "NoneType", num |-> NoNumber, text |-> NoText]
DatetimeCell == [type |-> "datetime", num |-> NoNumber, text |-> NoText]

\* float(first_value): [ok, val]; ok = FALSE for ValueError or TypeError
PyFloat(cell) ==
    CASE cell.type \in {"int", "float", "Decimal"} -> [ok |-> TRUE, val |-> cell.num]
      [] cell.type = "str" -> ParseFloat(cell.text)
      [] OTHER -> [ok |-> FALSE, val |-> NoNumber]

\* execute_query without the inner try/except around float(first_value)
execute_query_unguarded(result) ==
    IF result = <<>> THEN [exc |-> "none", val |-> Num(0, 0), warned |-> FALSE]
    ELSE IF result[1] = <<>> THEN [exc |-> "IndexError", val |-> NoNumber, warned |-> FALSE]
    ELSE IF result[1][1].type = "NoneType"
    THEN [exc |-> "none", val |-> Num(0, 0), warned |-> FALSE]
    ELSE IF PyFloat(result[1][1]).ok
    THEN [exc |-> "none", val |-> PyFloat(result[1][1]).val, warned |-> FALSE]
    ELSE [exc |-> "ValueError", val |-> NoNumber, warned |-> FALSE]

\* what execute_query does with the fetched rows (database.py:59-79):
\* [exc, val, warned]; exc = "IndexError" when the first row has no column
execute_query(result) ==
    IF result = <<>> THEN [exc |-> "none", val |-> Num(0, 0), warned |-> FALSE]
    ELSE LET first_row == result[1]
         IN  IF first_row = <<>>
             THEN [exc |-> "IndexError", val |-> NoNumber, warned |-> FALSE]
             ELSE LET first_value == first_row[1]
                  IN  IF first_value.type \in {"int", "float"}
                      THEN [exc |-> "none", val |-> PyFloat(first_value).val, warned |-> FALSE]
                      ELSE IF first_value.type = "NoneType"
                      THEN [exc |-> "none", val |-> Num(0, 0), warned |-> FALSE]
                      ELSE IF PyFloat(first_value).ok
                      THEN [exc |-> "none", val |-> PyFloat(first_value).val, warned |-> FALSE]
                      ELSE [exc |-> "none", val |-> Num(0, 0), warned |-> TRUE]

(***************************************************************************)
(* The texts the source sends or raises.  Each non-ASCII literal is one    *)
(* symbol.                                                                 *)
(***************************************************************************)
\* handlers.py:34
MsgNotInitialized == <<"[Servisy ne initsializirovany. Poprobuyte pozzhe.]">>
\* handlers.py:40
MsgEmptyQuestion == <<"[Pozhaluysta, otprav'te zapros na russkom yazyke.]">>
\* handlers.py:68
MsgProcessingError ==
    <<"[Proizoshla oshibka pri obrabotke vashego zaprosa. Poprobuyte pereformulirovat' vopros.]">>
\* handlers.py:64, the prefix of the f-string
ErrorPrefix == <<"[Oshibka: ]">>
\* llm_service.py:185
ExtractFailedText == <<"[Ne udalos' izvlech' SQL iz otveta LLM]">>
\* llm_service.py:189, the prefix of the f-string
UnsafePrefix == <<"[Nebezopasnyy SQL zapros: ]">>
\* str(e) of the ValueError int(float('nan')) raises
NaNToIntText == <<"c", "a", "n", "n", "o", "t", " ", "c", "o", "n", "v", "e", "r", "t", " ", "f", "l", "o", "a", "t", " ", "N", "a", "N", " ", "t", "o", " ", "i", "n", "t", "e", "g", "e", "r">>

\* what the translator call gives: the content of the first choice (a str or
\* None), or an exception of the client (network, auth, rate limit)
Content(text) == [kind |-> "content", text |-> text]
NoneContent == [kind |-> "none", text |-> NoText]
ClientError == [kind |-> "error", text |-> NoText]
\* nothing yet
NoOutcome == [kind |-> "pending", text |-> NoText]

\* generate_sql without the call of _validate_sql
generate_sql_unvalidated(outcome) ==
    IF outcome.kind # "content"
    THEN [exc |-> "Exception", stage |-> "TranslationFailed", sql |-> NoText, msg |-> NoText]
    ELSE IF _extract_sql(outcome.text) = <<>>
    THEN [exc |-> "ValueError", stage |-> "ExtractionFailed",
          sql |-> NoText, msg |-> ExtractFailedText]
    ELSE [exc |-> "none", stage |-> "none", sql |-> _extract_sql(outcome.text), msg |-> NoText]

\* generate_sql after the await (llm_service.py:181-196):
\* [exc, stage, sql, msg]; exc = "none" when it returns sql, and otherwise
\* stage names the failure in the taxonomy of the specification
generate_sql(outcome) ==
    IF outcome.kind = "error"
    THEN [exc |-> "Exception", stage |-> "TranslationFailed", sql |-> NoText, msg |-> NoText]
    ELSE IF outcome.kind = "none"
    \* None.strip(): AttributeError
    THEN [exc |-> "Exception", stage |-> "TranslationFailed", sql |-> NoText, msg |-> NoText]
    ELSE LET sql == _extract_sql(outcome.text)
         IN  IF sql = <<>>
             THEN [exc |-> "ValueError", stage |-> "ExtractionFailed",
                   sql |-> NoText, msg |-> ExtractFailedText]
             ELSE IF ~_validate_sql(sql)
             THEN [exc |-> "ValueError", stage |-> "UnsafeQuery",
                   sql |-> NoText, msg |-> UnsafePrefix \o sql]
             ELSE [exc |-> "none", stage |-> "none", sql |-> sql, msg |-> NoText]

\* the answer without the test result == int(result): always str(result)
answer_always_decimal(result) ==
    IF result.k = "nan" THEN [exc |-> "none", text |-> <<"n", "a", "n">>]
    ELSE IF result.k = "inf" THEN [exc |-> "none", text |-> <<"i", "n", "f">>]
    ELSE [exc |-> "none", text |-> FloatStr(result)]

\* the answer for a result (handlers.py:54-57): [exc, text]
answer(result) ==
    IF result.k = "nan" THEN [exc |-> "ValueError", text |-> NaNToIntText]
    ELSE IF result.k = "inf" THEN [exc |-> "Exception", text |-> NoText]
    ELSE IF result.e = 0 THEN [exc |-> "none", text |-> IntStr(IntOf(result))]
    ELSE [exc |-> "none", text |-> FloatStr(result)]

\* the text the handler sends for an exception it caught (handlers.py:62-68)
error_reply(exc, msg) ==
    IF exc = "ValueError" THEN ErrorPrefix \o msg ELSE MsgProcessingError

\* QueryBuilder.execute: result if result is not None else 0.0
QueryBuilder_execute(result) == IF result.k = "none" THEN Num(0, 0) ELSE result

(***************************************************************************)
(* Inputs: what the translator may answer and what the database may        *)
(* return.                                                                 *)
(***************************************************************************)
\* "SELECT COUNT(*) FROM videos;"
Scenario1Raw == <<"S", "E", "L", "E", "C", "T", " ", "C", "O", "U", "N", "T", "(", "*", ")", " ", "F", "R", "O", "M", " ", "v", "i", "d", "e", "o", "s", ";">>
\* the statement of scenario 2
Scenario2Sql ==
    <<"S", "E", "L", "E", "C", "T", " ", "C", "O", "A", "L", "E", "S", "C", "E", "(", "S", "U", "M", "(", "d", "e", "l", "t", "a", "_", "v", "i", "e", "w", "s", "_", "c", "o", "u", "n", "t", ")", ",", "0", ")", " ", "F", "R", "O", "M", " ", "v", "i", "d", "e", "o", "_", "s", "n", "a", "p", "s", "h", "o", "t", "s", " ", "W", "H", "E", "R", "E", " ", "D", "A", "T", "E", "(", "c", "r", "e", "a", "t", "e", "d", "_", "a", "t", ")", "=", "D", "A", "T", "E", " ", "'", "2", "0", "2", "5", "-", "1", "1", "-", "2", "8", "'">>
\* scenario 2: fenced with a language tag, terminated
Scenario2Raw == Fence \o <<"s", "q", "l", "\n">> \o Scenario2Sql \o <<";", "\n">> \o Fence
\* "DROP TABLE videos;"
Scenario3Raw == <<"D", "R", "O", "P", " ", "T", "A", "B", "L", "E", " ", "v", "i", "d", "e", "o", "s", ";">>
\* a fenced block without a language tag
FencedPlainRaw == Fence \o <<"\n", "s", "e", "l", "e", "c", "t", " ", "1", "\n">> \o Fence
\* a fenced block with nothing in it
FencedEmptyRaw == Fence \o <<"\n">> \o Fence
\* the closing fence on the line of the statement
InlineFenceRaw == Fence \o <<"s", "q", "l", "\n", "S", "E", "L", "E", "C", "T", " ", "1", ";">> \o Fence

Outcomes ==
    {Content(Scenario1Raw), Content(Scenario2Raw), Content(Scenario3Raw),
     Content(FencedPlainRaw), Content(FencedEmptyRaw), Content(InlineFenceRaw),
     NoneContent, ClientError}

\* the inputs of the pool's specification
PoolOutcomes == {Content(Scenario1Raw), Content(Scenario3Raw), ClientError}

\* the first cells of the model
Cells ==
    {IntCell(42), FloatCell(Num(75, 1)), FloatCell(NaN), FloatCell(Inf),
     DecimalCell(Num(70, 1)), StrCell(<<"7">>), StrCell(<<" ", "7", ".", "5", " ">>),
     StrCell(<<"a", "b", "c">>), NoneCell, DatetimeCell}

\* result sets: no row; one row of one cell; further columns and rows after a
\* first cell; a row without columns (SELECT FROM videos)
ResultSets ==
    {<<>>, << <<>> >>}
    \cup {<< <<c>> >> : c \in Cells}
    \cup {<< <<IntCell(42), StrCell(<<"a", "b", "c">>)>>, <<IntCell(1)>> >>,
          << <<StrCell(<<"7">>)>>, <<IntCell(1), NoneCell>> >>}

PoolResultSets == {<<>>, << <<>> >>}

\* generate_sql and execute_query on each input, computed once
generate_sql_of == [outcome \in Outcomes |-> generate_sql(outcome)]
execute_query_of == [rows \in ResultSets |-> execute_query(rows)]

\* message.text: a question, and a text of whitespace only
QuestionText == <<"[Skol'ko vsego video est' v sisteme?]">>
Questions == {QuestionText \o <<"\n">>, <<" ", "\n">>}

\* arguments of the pure functions: every concatenation of up to MaxFrags
\* fragments, the examples of the specification, and fenced blocks
Frags ==
    {SELECT, <<"s", "e", "l", "e", "c", "t">>, <<"S", "e", "l", "e", "c", "t">>, <<" ">>, Semicolon, <<"\n">>, Fence, <<"s", "q", "l">>,
     <<"D", "R", "O", "P">>, <<"e", "x", "e", "c">>, <<"1">>, <<"c", "r", "e", "a", "t", "e", "d", "_", "a", "t">>}

RECURSIVE Flatten(_)
Flatten(ss) == IF ss = <<>> THEN <<>> ELSE ss[1] \o Flatten(Tail(ss))

FragInputs == {Flatten(ss) : ss \in UNION {[1..n -> Frags] : n \in 0..MaxFrags}}

\* "UPDATE videos SET views_count=0"
UpdateExample == <<"U", "P", "D", "A", "T", "E", " ", "v", "i", "d", "e", "o", "s", " ", "S", "E", "T", " ", "v", "i", "e", "w", "s", "_", "c", "o", "u", "n", "t", "=", "0">>
\* "select * from videos; DROP TABLE videos"
SelectDropExample == <<"s", "e", "l", "e", "c", "t", " ", "*", " ", "f", "r", "o", "m", " ", "v", "i", "d", "e", "o", "s", ";", " ", "D", "R", "O", "P", " ", "T", "A", "B", "L", "E", " ", "v", "i", "d", "e", "o", "s">>
\* "SELECT COUNT(*) FROM videos"
CountExample == <<"S", "E", "L", "E", "C", "T", " ", "C", "O", "U", "N", "T", "(", "*", ")", " ", "F", "R", "O", "M", " ", "v", "i", "d", "e", "o", "s">>

\* statements to put in a fenced block
Inners == {<<"S", "E", "L", "E", "C", "T", " ", "1">>, <<"s", "e", "l", "e", "c", "t", " ", "c", "o", "u", "n", "t", "(", "*", ")", "\n", "f", "r", "o", "m", " ", "v", "i", "d", "e", "o", "s">>}
NoOrNewline == {<<>>, <<"\n">>}
\* a fenced block: the opening fence alone or with the tag sql on its line,
\* or directly before the statement; the statement, terminated or not; the
\* closing fence on its own line or directly after the statement
FencedBlock(tag, nl1, inner, term, nl2) ==
    Fence \o tag \o nl1 \o inner \o term \o nl2 \o Fence
FenceShapes ==
    {sh \in [tag : {<<>>, <<"s", "q", "l">>}, nl1 : NoOrNewline, inner : Inners,
             term : {<<>>, Semicolon}, nl2 : NoOrNewline] :
        sh.tag # <<>> => sh.nl1 # <<>>}
FencedOf(sh) == FencedBlock(sh.tag, sh.nl1, sh.inner, sh.term, sh.nl2)
FencedInputs == {FencedOf(sh) : sh \in FenceShapes}

FnInputs ==
    FragInputs \cup FencedInputs
    \cup {UpdateExample, SelectDropExample, CountExample, Scenario2Raw, Scenario2Sql}

(***************************************************************************)
(* State.                                                                  *)
(***************************************************************************)
Reqs == 1..NumReqs

\* asyncpg.create_pool(..., max_size=10)
max_size == 10

VARIABLES
    \* handlers._llm_service and handlers._query_builder are set
    servicesSet,
    \* per handler invocation: its position and its local variables
    req,
    \* connections of the pool nobody holds
    free,
    \* connections held by invocations that are not modelled one by one
    otherHeld,
    \* the argument and the results of the pure functions under test
    fnIn, fnOut

vars == <<servicesSet, req, free, otherHeld, fnIn, fnOut>>

\* rows not fetched
NoRows == << <<[type |-> "unfetched", num |-> NoNumber, text |-> NoText]>> >>

NewRequest ==
    [pc |-> "idle", question |-> NoText, outcome |-> NoOutcome, sql |-> NoText,
     holding |-> FALSE, acquires |-> 0, sent |-> <<>>, llmCalls |-> 0,
     rows |-> NoRows, result |-> NoNumber, warned |-> FALSE,
     replies |-> <<>>, exc |-> "none", failed |-> "none"]

\* not yet applied
Undefined == <<"[undefined]">>
NoFn == [extracted |-> Undefined, again |-> Undefined, verdict |-> "undefined"]

Init ==
    /\ servicesSet = FALSE
    /\ req = [r \in Reqs |-> NewRequest]
    /\ free = max_size
    /\ otherHeld = 0
    /\ fnIn = <<>>
    /\ fnOut = NoFn

(***************************************************************************)
(* Operations.                                                             *)
(***************************************************************************)
\* set_services(llm_service, query_builder), called once by main
SetServices ==
    /\ ~servicesSet
    /\ servicesSet' = TRUE
    /\ UNCHANGED <<req, free, otherHeld, fnIn, fnOut>>

\* handle_text_message without the test of the empty question
ReceiveWithoutEmptyCheck(r, text) ==
    /\ req[r].pc = "idle"
    /\ req' = [req EXCEPT ![r] =
          IF ~servicesSet
          THEN [@ EXCEPT !.pc = "done", !.replies = Append(@, MsgNotInitialized)]
          ELSE [@ EXCEPT !.pc = "translating", !.question = Strip(text),
                         !.llmCalls = @ + 1]]
    /\ UNCHANGED <<servicesSet, free, otherHeld, fnIn, fnOut>>

\* handle_text_message up to the translator call (handlers.py:33-47,
\* llm_service.py:166-179)
Receive(r, text) ==
    /\ req[r].pc = "idle"
    /\ req' = [req EXCEPT ![r] =
          IF ~servicesSet
          THEN [@ EXCEPT !.pc = "done", !.replies = Append(@, MsgNotInitialized)]
          ELSE IF Strip(text) = <<>>
          THEN [@ EXCEPT !.pc = "done", !.replies = Append(@, MsgEmptyQuestion)]
          ELSE [@ EXCEPT !.pc = "translating", !.question = Strip(text),
                         !.llmCalls = @ + 1]]
    /\ UNCHANGED <<servicesSet, free, otherHeld, fnIn, fnOut>>

\* the translator call ends: generate_sql finishes; the handler either goes on
\* to execute (which awaits pool.acquire()) or answers the error
TranslatorReturn(r, outcome) ==
    /\ req[r].pc = "translating"
    /\ LET g == generate_sql_of[outcome]
       IN  req' = [req EXCEPT ![r] =
             IF g.exc = "none"
             THEN [@ EXCEPT !.pc = "acquiring", !.outcome = outcome, !.sql = g.sql]
             ELSE [@ EXCEPT !.pc = "done", !.outcome = outcome, !.exc = g.exc,
                            !.failed = g.stage,
                            !.replies = Append(@, error_reply(g.exc, g.msg))]]
    /\ UNCHANGED <<servicesSet, free, otherHeld, fnIn, fnOut>>

\* pool.acquire() gives a connection (it suspends while none is free) and
\* conn.fetch(sql) is sent (database.py:58-59).  main creates the pool before
\* it calls set_services, so self.pool is set whenever a request gets here.
Acquire(r) ==
    /\ req[r].pc = "acquiring"
    /\ free > 0
    /\ free' = free - 1
    /\ req' = [req EXCEPT ![r] =
          [@ EXCEPT !.pc = "fetching", !.holding = TRUE, !.acquires = @ + 1,
                    !.sent = Append(@, req[r].sql)]]
    /\ UNCHANGED <<servicesSet, otherHeld, fnIn, fnOut>>

\* a release on the normal return only (no "async with")
held_after_exit_unless_returned(holding, path) == holding /\ path # "return"

\* whether the connection is still held after the "async with" block is left
\* by path ("return", "error", "cancel"): never
held_after_exit(holding, path) == FALSE

\* the request and the pool after execute_query is left by path
Exit(rec, path) == [rec EXCEPT !.holding = held_after_exit(rec.holding, path)]
FreeAfterExit(rec, path) ==
    IF rec.holding /\ ~held_after_exit(rec.holding, path) THEN free + 1 ELSE free

\* the handler's except clauses (handlers.py:62-68)
Caught(rec, exc, stage, msg) ==
    [rec EXCEPT !.pc = "done", !.exc = exc, !.failed = stage,
                !.replies = Append(@, error_reply(exc, msg))]

\* conn.fetch returns rows: execute_query computes the number and leaves the
\* "async with" block, the handler renders and answers (database.py:59-83,
\* query_builder.py:27-28, handlers.py:50-68)
FetchReturn(r, rows) ==
    /\ req[r].pc = "fetching"
    /\ LET n == execute_query_of[rows]
           fetched == [req[r] EXCEPT !.rows = rows]
       IN  IF n.exc # "none"
           THEN /\ req' = [req EXCEPT ![r] =
                      Caught(Exit(fetched, "error"), "Exception", "ExecutionFailed", NoText)]
                /\ free' = FreeAfterExit(req[r], "error")
           ELSE LET result == QueryBuilder_execute(n.val)
                    a == answer(result)
                    got == [Exit(fetched, "return") EXCEPT !.result = result,
                                                           !.warned = n.warned]
                IN  /\ req' = [req EXCEPT ![r] =
                          IF a.exc = "none"
                          THEN [got EXCEPT !.pc = "done", !.replies = Append(@, a.text)]
                          ELSE Caught(got, a.exc, "RenderFailed", a.text)]
                    /\ free' = FreeAfterExit(req[r], "return")
    /\ UNCHANGED <<servicesSet, otherHeld, fnIn, fnOut>>

\* execute_query trying the statement once more after an error
DbErrorRetry(r) ==
    /\ req[r].pc \in {"acquiring", "fetching"}
    /\ req' = [req EXCEPT ![r] =
          IF Len(req[r].sent) = 1
          THEN [Exit(req[r], "error") EXCEPT !.pc = "acquiring"]
          ELSE Caught(Exit(req[r], "error"), "Exception", "ExecutionFailed", NoText)]
    /\ free' = FreeAfterExit(req[r], "error")
    /\ UNCHANGED <<servicesSet, otherHeld, fnIn, fnOut>>

\* a database-level error (no connection to be had, syntax error, timeout):
\* logged and re-raised by execute_query (database.py:81-83), answered by the
\* handler (handlers.py:66-68)
DbError(r) ==
    /\ req[r].pc \in {"acquiring", "fetching"}
    /\ req' = [req EXCEPT ![r] =
          Caught(Exit(req[r], "error"), "Exception", "ExecutionFailed", NoText)]
    /\ free' = FreeAfterExit(req[r], "error")
    /\ UNCHANGED <<servicesSet, otherHeld, fnIn, fnOut>>

\* the task is cancelled at an await: CancelledError is no Exception, so no
\* except clause answers; the "async with" block is left
Cancel(r) ==
    /\ req[r].pc \in {"translating", "acquiring", "fetching"}
    /\ req' = [req EXCEPT ![r] =
          [Exit(req[r], "cancel") EXCEPT !.pc = "cancelled", !.exc = "CancelledError"]]
    /\ free' = FreeAfterExit(req[r], "cancel")
    /\ UNCHANGED <<servicesSet, otherHeld, fnIn, fnOut>>

\* another invocation takes a connection, or gives it back
OtherAcquire ==
    /\ free > 0
    /\ free' = free - 1
    /\ otherHeld' = otherHeld + 1
    /\ UNCHANGED <<servicesSet, req, fnIn, fnOut>>

OtherRelease ==
    /\ otherHeld > 0
    /\ free' = free + 1
    /\ otherHeld' = otherHeld - 1
    /\ UNCHANGED <<servicesSet, req, fnIn, fnOut>>

(***************************************************************************)
(* Specifications.                                                         *)
(***************************************************************************)
\* the pipeline: concurrent handler invocations, every input
Next ==
    \/ SetServices
    \/ \E r \in Reqs, text \in Questions : Receive(r, text)
    \/ \E r \in Reqs, outcome \in Outcomes : TranslatorReturn(r, outcome)
    \/ \E r \in Reqs : Acquire(r)
    \/ \E r \in Reqs, rows \in ResultSets : FetchReturn(r, rows)
    \/ \E r \in Reqs : DbError(r)
    \/ \E r \in Reqs : Cancel(r)

Spec == Init /\ [][Next]_vars

\* the pool under load: few inputs, and further invocations taking and giving
\* back connections
NextPool ==
    \/ SetServices
    \/ \E r \in Reqs, text \in Questions : Receive(r, text)
    \/ \E r \in Reqs, outcome \in PoolOutcomes : TranslatorReturn(r, outcome)
    \/ \E r \in Reqs : Acquire(r)
    \/ \E r \in Reqs, rows \in PoolResultSets : FetchReturn(r, rows)
    \/ \E r \in Reqs : DbError(r)
    \/ \E r \in Reqs : Cancel(r)
    \/ OtherAcquire
    \/ OtherRelease

SpecPool == Init /\ [][NextPool]_vars

\* the pure functions applied to every argument of FnInputs
InitFn ==
    /\ servicesSet = FALSE
    /\ req = [r \in Reqs |-> NewRequest]
    /\ free = max_size
    /\ otherHeld = 0
    /\ fnIn \in FnInputs
    /\ fnOut = NoFn

\* sql = self._extract_sql(sql_response)
FnExtract ==
    /\ fnOut.extracted = Undefined
    /\ fnOut' = [fnOut EXCEPT !.extracted = _extract_sql(fnIn)]
    /\ UNCHANGED <<servicesSet, req, free, otherHeld, fnIn>>

\* _extract_sql applied to its own result
FnExtractAgain ==
    /\ fnOut.extracted # Undefined
    /\ fnOut.again = Undefined
    /\ fnOut' = [fnOut EXCEPT !.again = _extract_sql(fnOut.extracted)]
    /\ UNCHANGED <<servicesSet, req, free, otherHeld, fnIn>>

\* self._validate_sql(sql) on the argument as the candidate
FnValidate ==
    /\ fnOut.verdict = "undefined"
    /\ fnOut' = [fnOut EXCEPT !.verdict = ValidateOutcome(fnIn)]
    /\ UNCHANGED <<servicesSet, req, free, otherHeld, fnIn>>

NextFn == FnExtract \/ FnExtractAgain \/ FnValidate

SpecFn == InitFn /\ [][NextFn]_vars

(***************************************************************************)
(* Properties.                                                             *)
(***************************************************************************)
Finished(rec) == rec.pc \in {"done", "cancelled"}
LastReply(rec) == rec.replies[Len(rec.replies)]

\* the candidate of each translator outcome, and the outcomes whose candidate
\* is non-empty and accepted by the validator
CandidateOf ==
    [o \in Outcomes \cup {NoOutcome} |->
        IF o.kind = "content" THEN _extract_sql(o.text) ELSE <<>>]
AcceptedOutcomes ==
    {o \in Outcomes : /\ o.kind = "content"
                      /\ CandidateOf[o] # <<>>
                      /\ ValidateOutcome(CandidateOf[o]) = "Accepted"}

\* the failure texts with nothing of the request in them
GenericFailureMessages ==
    {MsgProcessingError, ErrorPrefix \o ExtractFailedText, ErrorPrefix \o UnsafePrefix}

\* C1: every failed request (translator error, empty extraction, rejection,
\* database error) is answered with one of the fixed generic messages, and
\* the answer to a rejected candidate does not contain the candidate
C1_FailureRepliesAreGeneric ==
    \A r \in Reqs :
        req[r].failed \in {"TranslationFailed", "ExtractionFailed", "UnsafeQuery",
                           "ExecutionFailed"}
        => /\ LastReply(req[r]) \in GenericFailureMessages
           /\ req[r].failed = "UnsafeQuery"
              => ~Contains(LastReply(req[r]), CandidateOf[req[r].outcome])

\* the translator returned a text, extraction gave a non-empty string and the
\* validator accepted that string
Validated(rec, stmt) ==
    /\ rec.outcome \in AcceptedOutcomes
    /\ stmt = CandidateOf[rec.outcome]

\* C2: the database receives a statement only after the translator returned,
\* extraction gave a non-empty string and the validator accepted exactly that
\* string; a request whose translation failed, whose extraction is empty or
\* whose candidate is rejected acquires no connection and sends nothing
C2_OnlyValidatedSqlReachesDatabase ==
    \A r \in Reqs :
        /\ \A i \in 1..Len(req[r].sent) : Validated(req[r], req[r].sent[i])
        /\ req[r].acquires > 0 => Validated(req[r], req[r].sql)
        /\ req[r].outcome \notin AcceptedOutcomes
           => req[r].acquires = 0 /\ req[r].sent = <<>> /\ ~req[r].holding

C2_Witness ==
    \E r1, r2 \in Reqs :
        /\ req[r1].sent = <<SubSeq(Scenario1Raw, 1, Len(Scenario1Raw) - 1)>>
        /\ req[r2].failed = "UnsafeQuery"
        /\ req[r2].acquires = 0

\* two characters that are the same letter in either case
SameLetter(a, b) ==
    a = b \/ \E i \in 1..Len(LowerLetters) : {a, b} = {LowerLetters[i], UpperLetters[i]}
\* word stands at position i of s, in any case
WordAt(s, i, word) ==
    /\ i + Len(word) - 1 <= Len(s)
    /\ \A j \in 1..Len(word) : SameLetter(s[i + j - 1], word[j])
Denylist == {dangerous_keywords[k] : k \in 1..Len(dangerous_keywords)}
\* the outcome the rules give, in order
RuleOutcome(s) ==
    IF ~WordAt(Strip(s), 1, SELECT) THEN "NotASelect"
    ELSE IF \E w \in Denylist, i \in 1..Len(s) : WordAt(s, i, w) THEN "ForbiddenKeyword"
    ELSE "Accepted"

\* C3: validate decides every candidate by the rules in order, in any case,
\* on the trimmed string: not beginning with SELECT gives NotASelect (also
\* with a denylisted token in it), else a denylisted token anywhere gives
\* ForbiddenKeyword, else the candidate is accepted
C3_ValidateByRulesInOrder ==
    fnOut.verdict # "undefined"
    => /\ fnOut.verdict = RuleOutcome(fnIn)
       /\ fnIn = UpdateExample => fnOut.verdict = "NotASelect"
       /\ fnIn = SelectDropExample => fnOut.verdict = "ForbiddenKeyword"
       /\ fnIn \in {SELECT, <<"s", "e", "l", "e", "c", "t">>, <<"S", "e", "l", "e", "c", "t">>, CountExample} => fnOut.verdict = "Accepted"

C3_Witness ==
    \/ fnIn = UpdateExample /\ fnOut.verdict = "NotASelect"
    \/ fnIn = <<" ", "\n", "S", "e", "l", "e", "c", "t", " ", "D", "R", "O", "P">> /\ fnOut.verdict = "ForbiddenKeyword"

\* C4: scenario 2: the fenced, terminated statement is extracted, validated
\* and executed, and on a result set without rows the user receives "0"
C4_Scenario2AnswersZero ==
    \A r \in Reqs :
        req[r].outcome = Content(Scenario2Raw)
        => /\ CandidateOf[req[r].outcome] = Scenario2Sql
           /\ req[r].failed # "UnsafeQuery"
           /\ req[r].rows = <<>> => req[r].replies = <<<<"0">>>>

\* C5: extract applied to its own non-empty result gives that result
C5_ExtractIdempotent ==
    (fnOut.again # Undefined /\ fnOut.extracted # <<>>)
    => fnOut.again = fnOut.extracted

\* C6: a fenced block, with or without a language tag and wherever the line
\* breaks fall, is extracted to the statement in it: no fence marker, no
\* terminator
C6_FencedBlockYieldsInner ==
    \A sh \in FenceShapes :
        (fnIn = FencedOf(sh) /\ fnOut.extracted # Undefined)
        => fnOut.extracted = sh.inner /\ ~Contains(fnOut.extracted, Fence)

\* the rows were fetched and have a first cell
HasFirstCell(rec) == rec.rows # NoRows /\ rec.rows # <<>> /\ rec.rows[1] # <<>>
Zero == Num(0, 0)

\* C7: for every first cell of a fetched result set, execute gives a number
\* and raises nothing: a numeric cell gives its value, null gives 0, numeric
\* text gives the parsed value, anything else gives 0 with a logged warning
C7_NormalizationTotal ==
    \A r \in Reqs :
        HasFirstCell(req[r])
        => LET cell == req[r].rows[1][1]
               result == req[r].result
           IN  /\ result.k \in {"num", "nan", "inf"}
               /\ req[r].failed # "ExecutionFailed"
               /\ cell.type \in {"int", "float"} => result = cell.num /\ ~req[r].warned
               /\ cell = IntCell(42) => result = Num(42, 0)
               /\ cell.type = "NoneType" => result = Zero /\ ~req[r].warned
               /\ cell = StrCell(<<"7">>) => result = Num(7, 0) /\ ~req[r].warned
               /\ cell = StrCell(<<" ", "7", ".", "5", " ">>) => result = Num(75, 1) /\ ~req[r].warned
               /\ cell = DecimalCell(Num(70, 1)) => result = Num(7, 0) /\ ~req[r].warned
               /\ cell \in {StrCell(<<"a", "b", "c">>), DatetimeCell} => result = Zero /\ req[r].warned

C7_Witness ==
    \E r \in Reqs :
        /\ req[r].rows = << <<StrCell(<<"a", "b", "c">>)>> >>
        /\ req[r].result = Zero
        /\ req[r].warned
        /\ req[r].replies = <<<<"0">>>>

\* C8: execute on a result set without rows gives zero and no error; on any
\* result set with a row it gives the value of the first column of the first
\* row only, so result sets with the same first cell give the same result
C8_FirstCellOfFirstRowOnly ==
    \A r \in Reqs :
        req[r].rows # NoRows
        => /\ req[r].failed # "ExecutionFailed"
           /\ req[r].rows = <<>> => req[r].result = Zero
           /\ \A r2 \in Reqs :
                (/\ req[r].rows # <<>>
                 /\ req[r2].rows \notin {NoRows, <<>>}
                 /\ req[r].rows[1] # <<>> /\ req[r2].rows[1] # <<>>
                 /\ req[r].rows[1][1] = req[r2].rows[1][1])
                => req[r].result = req[r2].result

Holders == {r \in Reqs : req[r].holding}

\* C9: a finished request holds no connection, on return, error and
\* cancellation alike; the connections held never exceed max_size; when all
\* requests have finished every connection is free
C9_ConnectionsReleased ==
    /\ \A r \in Reqs : Finished(req[r]) => ~req[r].holding
    /\ \A r \in Reqs : req[r].holding => req[r].pc = "fetching"
    /\ Cardinality(Holders) + otherHeld <= max_size
    /\ free = max_size - (Cardinality(Holders) + otherHeld)
    /\ ((\A r \in Reqs : Finished(req[r])) /\ otherHeld = 0) => free = max_size

\* the pool is exhausted with a request suspended in acquire, after a request
\* that held a connection was cancelled
C9_Witness ==
    /\ free = 0
    /\ \E r1, r2 \in Reqs :
        /\ req[r1].pc = "acquiring"
        /\ req[r2].acquires = 1
        /\ req[r2].pc = "cancelled"

\* C10: in every request the translator is called at most once and the
\* database is sent at most one statement; a database error ends the request
\* as an execution failure after that one attempt; every request that gets
\* past the early exits calls the translator, whatever was asked before
C10_NoRetryNoCache ==
    \A r \in Reqs :
        /\ req[r].llmCalls <= 1
        /\ req[r].acquires <= 1
        /\ Len(req[r].sent) <= 1
        /\ req[r].failed = "ExecutionFailed"
           => req[r].pc = "done" /\ req[r].replies = <<MsgProcessingError>>
        /\ req[r].pc \in {"translating", "acquiring", "fetching"} => req[r].failed = "none"
        /\ req[r].question # NoText => req[r].llmCalls = 1

\* a request failed in execution after its one statement, and a request with
\* the same question called the translator itself
C10_Witness ==
    \E r1, r2 \in Reqs :
        /\ r1 # r2
        /\ req[r1].failed = "ExecutionFailed" /\ Len(req[r1].sent) = 1
        /\ req[r1].rows = NoRows
        /\ req[r1].question = QuestionText
        /\ req[r2].question = req[r1].question
        /\ req[r2].llmCalls = 1
        /\ req[r2].pc = "translating"

\* str(r) of a float r
PyStr(x) ==
    IF x.k = "nan" THEN <<"n", "a", "n">>
    ELSE IF x.k = "inf" THEN <<"i", "n", "f">>
    ELSE FloatStr(x)

\* the text the rule of the claim gives for r: str(int(r)) when r equals its
\* truncation, str(r) otherwise
RenderedByRule(x) ==
    IF x.k = "num" /\ x.e = 0 THEN IntStr(x.m) ELSE PyStr(x)

EarlyExit(rec) == rec.pc # "idle" /\ rec.question = NoText

\* C12: a message whose handler has run to its end has exactly one reply, on
\* each path (services not set, empty question, success, validation error,
\* any other exception), and none before; on the two early exits neither the
\* translator nor the database was called.  (A cancelled task is no path to
\* the handler's end: it has sent nothing.)
C12_ExactlyOneReply ==
    \A r \in Reqs :
        /\ req[r].pc = "done" => Len(req[r].replies) = 1
        /\ req[r].pc # "done" => req[r].replies = <<>>
        /\ EarlyExit(req[r])
           => /\ req[r].pc = "done"
              /\ req[r].replies \in {<<MsgNotInitialized>>, <<MsgEmptyQuestion>>}
              /\ req[r].llmCalls = 0
              /\ req[r].outcome = NoOutcome
              /\ req[r].acquires = 0 /\ req[r].sent = <<>> /\ req[r].rows = NoRows
        /\ (req[r].pc = "done" /\ ~EarlyExit(req[r]))
           => /\ req[r].llmCalls = 1
              /\ req[r].exc = "none" => req[r].result.k = "num"
              /\ req[r].exc = "ValueError" => SubSeq(req[r].replies[1], 1, 1) = ErrorPrefix
              /\ req[r].exc = "Exception" => req[r].replies = <<MsgProcessingError>>

\* both early exits taken, by two requests
C12_Witness ==
    /\ \E r \in Reqs : req[r].replies = <<MsgNotInitialized>>
    /\ \E r \in Reqs : req[r].replies = <<MsgEmptyQuestion>>

====
